---- MODULE Spec2Model ----
(***************************************************************************)
(* Model of scripts/add_metal_classes.py: the palette extractor            *)
(* (extract_colors), the tone classifier (is_dark_theme), the colour       *)
(* selector (select_metal_colors), the marker check, the renderer, the     *)
(* per-file update (update_css_file) and the loop of main.                 *)
(*                                                                         *)
(* Texts are TLA+ strings; a character is a string of length 1.  Python    *)
(* dicts are functions whose domain is the set of keys present.            *)
(***************************************************************************)
EXTENDS Integers, Sequences, FiniteSets, TLC

VARIABLES
    files,      \* the texts of the *.min.css files, in sorted order
    pc,         \* position of main: "idle", "loop", "done" or "exit"; "off" when
                \* a function of the script is called directly
    idx,        \* number of files the loop of main has handled in this run
    updated,    \* main's counter
    skipped,    \* main's counter
    errors,     \* main's counter
    runs,       \* number of runs of main started so far
    log,        \* the calls of update_css_file so far, each with its outcome
    arg,        \* the argument of a direct call of one function of the script
    ret         \* <<>> before that call, <<[fn, val]>> after it: the function
                \* called and what it returned

vars == <<files, pc, idx, updated, skipped, errors, runs, log, arg, ret>>

-----------------------------------------------------------------------------
(* Bounds of the model                                                     *)

MaxRules == 2       \* rules per generated document
NumFiles == 2       \* files in the styles directory
MaxRuns == 2        \* runs of main over the same directory
MaxBgLen == 7       \* length of a malformed background value
GuardBits == 64     \* extra quotient bits computed before a division rounds
LimbBits == 15      \* width of the limbs the long arithmetic works on

-----------------------------------------------------------------------------
(* Strings                                                                 *)

CharAt(s, i) == SubSeq(s, i, i)

StartsAt(s, i, lit) ==
    /\ i + Len(lit) - 1 <= Len(s)
    /\ SubSeq(s, i, i + Len(lit) - 1) = lit

\* Python: sub in s
Contains(s, sub) == \E i \in 1..(Len(s) - Len(sub) + 1) : StartsAt(s, i, sub)

\* Python: s.endswith(suffix)
EndsWith(s, suffix) ==
    /\ Len(suffix) <= Len(s)
    /\ SubSeq(s, Len(s) - Len(suffix) + 1, Len(s)) = suffix

\* the characters of the model's texts that str.isspace() and the regex
\* class \s accept
Whitespace == {" ", "\t", "\n", "\r", "\f"}

HexChars == {"0", "1", "2", "3", "4", "5", "6", "7", "8", "9",
             "a", "b", "c", "d", "e", "f", "A", "B", "C", "D", "E", "F"}

\* Python: s.rstrip()
RStrip(s) ==
    LET keep == {n \in 1..Len(s) : CharAt(s, n) \notin Whitespace}
    IN  IF keep = {} THEN "" ELSE SubSeq(s, 1, CHOOSE n \in keep : \A m \in keep : m <= n)

\* Python: s.lstrip(chars)
LStrip(s, chars) ==
    LET keep == {n \in 1..Len(s) : CharAt(s, n) \notin chars}
    IN  IF keep = {} THEN "" ELSE SubSeq(s, CHOOSE n \in keep : \A m \in keep : n <= m, Len(s))

-----------------------------------------------------------------------------
(* Regular expressions of module re, as far as the patterns of             *)
(* extract_colors use them: a pattern is a sequence of items, each a       *)
(* literal or a greedy repetition {lo,hi} of a character class, and one    *)
(* capture group that starts at item grp and runs to the end.              *)

Lit(s) == [kind |-> "lit", lit |-> s, neg |-> FALSE, chars |-> {}, lo |-> 0, hi |-> 0]

\* hi = -1 stands for no upper limit
Rep(neg, chars, lo, hi) ==
    [kind |-> "rep", lit |-> "", neg |-> neg, chars |-> chars, lo |-> lo, hi |-> hi]

InClass(item, c) == IF item.neg THEN c \notin item.chars ELSE c \in item.chars

Range(f) == {f[x] : x \in DOMAIN f}

Min(S) == CHOOSE x \in S : \A y \in S : x <= y
Max(S) == CHOOSE x \in S : \A y \in S : x >= y

\* the longest run of class characters from position i, at most hi of them
Run(s, i, item) ==
    LET avail == Len(s) - i + 1
        limit == IF item.hi < 0 \/ avail < item.hi THEN avail ELSE item.hi
        stops == {n \in 0..(limit - 1) : ~InClass(item, CharAt(s, i + n))}
    IN  IF stops = {} THEN limit ELSE Min(stops)

\* Backtracking match of items k.. of the pattern at position i; cs is the
\* start of the capture group (0 while not entered).  The result is
\* <<group start, end of match>> of the first match in the engine's order,
\* or <<>>.  A greedy repetition tries its longest run first and gives back
\* one character at a time, so the first match takes the largest count
\* after which the rest of the pattern matches.
RECURSIVE MatchHere(_, _, _, _, _)
MatchHere(p, k, s, i, cs) ==
    IF k > Len(p.items) THEN <<cs, i>>
    ELSE LET item == p.items[k]
             c == IF k = p.grp THEN i ELSE cs
         IN  IF item.kind = "lit"
             THEN IF StartsAt(s, i, item.lit)
                  THEN MatchHere(p, k + 1, s, i + Len(item.lit), c)
                  ELSE <<>>
             ELSE LET counts == {n \in item.lo..Run(s, i, item) :
                                    MatchHere(p, k + 1, s, i + n, c) # <<>>}
                  IN  IF counts = {} THEN <<>>
                      ELSE MatchHere(p, k + 1, s, i + Max(counts), c)

\* Python: re.search(p, s); the leftmost position at which p matches
Search(p, s) ==
    LET starts == {i \in 1..(Len(s) + 1) : MatchHere(p, 1, s, i, 0) # <<>>}
    IN  IF starts = {} THEN <<>> ELSE MatchHere(p, 1, s, Min(starts), 0)

\* Python: match.group(1)
Group1(s, m) == SubSeq(s, m[1], m[2] - 1)

-----------------------------------------------------------------------------
(* extract_colors                                                          *)

\* [^}]*<prop>\s*(#[0-9a-fA-F]{3,6})
ColorTail(prop) ==
    << Rep(TRUE, {"}"}, 0, -1), Lit(prop), Rep(FALSE, Whitespace, 0, -1),
       Lit("#"), Rep(FALSE, HexChars, 3, 6) >>

Pattern(head, prop) == [items |-> head \o ColorTail(prop), grp |-> Len(head) + 4]

\* \.hljs-x\{
Bare(sel) == << Lit(sel \o "{") >>

\* \.hljs-x,[^{]*\{
Grouped(sel) == << Lit(sel \o ","), Rep(TRUE, {"{"}, 0, -1), Lit("{") >>

\* \.hljs-x[,\{]
Either(sel) == << Lit(sel), Rep(FALSE, {",", "{"}, 1, 1) >>

\* \.hljs-function\s+\.hljs-title[,\{]
FunctionTitle ==
    << Lit(".hljs-function"), Rep(FALSE, Whitespace, 1, -1),
       Lit(".hljs-title"), Rep(FALSE, {",", "{"}, 1, 1) >>

patterns ==
    << <<Pattern(Bare(".hljs-type"), "color:"), "type">>,
       <<Pattern(Bare(".hljs-keyword"), "color:"), "keyword">>,
       <<Pattern(Grouped(".hljs-keyword"), "color:"), "keyword">>,
       <<Pattern(Either(".hljs-number"), "color:"), "number">>,
       <<Pattern(Either(".hljs-literal"), "color:"), "literal">>,
       <<Pattern(Either(".hljs-string"), "color:"), "string">>,
       <<Pattern(Either(".hljs-built_in"), "color:"), "built_in">>,
       <<Pattern(Either(".hljs-title.function_"), "color:"), "function">>,
       <<Pattern(FunctionTitle, "color:"), "function">>,
       <<Pattern(Either(".hljs-attribute"), "color:"), "attribute">>,
       <<Pattern(Either(".hljs-name"), "color:"), "name">>,
       <<Pattern(Either(".hljs-variable"), "color:"), "variable">>,
       <<Pattern(Either(".hljs-symbol"), "color:"), "symbol">>,
       <<Pattern(Either(".hljs-meta"), "color:"), "meta">>,
       <<Pattern(Bare(".hljs"), "color:"), "base">>,
       <<Pattern(Bare(".hljs"), "background:"), "background">> >>

\* the empty dict
EmptyDict == [k \in {} |-> ""]

\* the loop of extract_colors without the test 'name not in colors': a later
\* pattern of a category overrides an earlier one
RECURSIVE ExtractLoop_Override(_, _, _)
ExtractLoop_Override(css_content, k, colors) ==
    IF k > Len(patterns) THEN colors
    ELSE LET pattern == patterns[k][1]
             name == patterns[k][2]
             match == Search(pattern, css_content)
         IN  IF match # <<>>
             THEN ExtractLoop_Override(css_content, k + 1,
                      (name :> Group1(css_content, match)) @@ colors)
             ELSE ExtractLoop_Override(css_content, k + 1, colors)

\* the loop of extract_colors from pattern k on
RECURSIVE ExtractLoop(_, _, _)
ExtractLoop(css_content, k, colors) ==
    IF k > Len(patterns) THEN colors
    ELSE LET pattern == patterns[k][1]
             name == patterns[k][2]
             match == Search(pattern, css_content)
         IN  IF match # <<>> /\ name \notin DOMAIN colors
             THEN ExtractLoop(css_content, k + 1,
                              colors @@ (name :> Group1(css_content, match)))
             ELSE ExtractLoop(css_content, k + 1, colors)

extract_colors(css_content) == ExtractLoop(css_content, 1, EmptyDict)

-----------------------------------------------------------------------------
(* Python floats (IEEE 754 binary64) as far as is_dark_theme uses them: a  *)
(* non-negative float is [m, e], the number m * 2^e, where m is a natural  *)
(* number written as its bits, lowest first, without leading zeros.  Every *)
(* operation computes the exact result and rounds it to MantBits           *)
(* significant bits, to nearest, ties to even.  The long arithmetic works  *)
(* on limbs of LimbBits bits.                                              *)

MantBits == 53

Base == 2 ^ LimbBits

RECURSIVE NatToBits(_)
NatToBits(n) == IF n = 0 THEN <<>> ELSE <<n % 2>> \o NatToBits(n \div 2)

Zeros(k) == [i \in 1..k |-> 0]

Trim(a) ==
    LET ones == {i \in 1..Len(a) : a[i] = 1}
    IN  IF ones = {} THEN <<>> ELSE SubSeq(a, 1, Max(ones))

Bit(a, i) == IF i <= Len(a) THEN a[i] ELSE 0

RECURSIVE LimbVal(_, _, _)
LimbVal(a, j, t) ==
    IF t = LimbBits THEN 0
    ELSE Bit(a, LimbBits * (j - 1) + t + 1) + 2 * LimbVal(a, j, t + 1)

ToLimbs(a) == [j \in 1..((Len(a) + LimbBits - 1) \div LimbBits) |-> LimbVal(a, j, 0)]

FromLimbs(l) ==
    Trim([i \in 1..(LimbBits * Len(l)) |->
            (l[(i - 1) \div LimbBits + 1] \div (2 ^ ((i - 1) % LimbBits))) % 2])

RECURSIVE MulCarry(_, _, _, _)
MulCarry(l, n, i, c) ==
    IF i > Len(l)
    THEN (IF c = 0 THEN <<>> ELSE <<c % Base>> \o MulCarry(l, n, i, c \div Base))
    ELSE LET t == l[i] * n + c
         IN  <<t % Base>> \o MulCarry(l, n, i + 1, t \div Base)

\* a * n for a small natural n
MulSmall(a, n) == FromLimbs(MulCarry(ToLimbs(a), n, 1, 0))

RECURSIVE AddCarry(_, _, _, _)
AddCarry(k, l, i, c) ==
    IF i > Len(k) /\ i > Len(l) THEN (IF c = 0 THEN <<>> ELSE <<c>>)
    ELSE LET t == (IF i <= Len(k) THEN k[i] ELSE 0)
                  + (IF i <= Len(l) THEN l[i] ELSE 0) + c
         IN  <<t % Base>> \o AddCarry(k, l, i + 1, t \div Base)

\* a + b
AddBits(a, b) == FromLimbs(AddCarry(ToLimbs(a), ToLimbs(b), 1, 0))

RECURSIVE DivStep(_, _, _, _)
DivStep(l, d, i, r) ==
    IF i = 0 THEN [q |-> <<>>, r |-> r]
    ELSE LET t == r * Base + l[i]
             rest == DivStep(l, d, i - 1, t % d)
         IN  [q |-> Append(rest.q, t \div d), r |-> rest.r]

\* quotient and remainder of a by a small natural d
DivSmall(a, d) ==
    LET l == ToLimbs(a)
        res == DivStep(l, d, Len(l), 0)
    IN  [q |-> FromLimbs(res.q), r |-> res.r]

\* m * 2^e (plus a non-zero rest below the last bit of m when sticky)
\* rounded to MantBits significant bits, to nearest, ties to even
Round(m, e, sticky) ==
    IF Len(m) <= MantBits THEN [m |-> m, e |-> e]
    ELSE LET d == Len(m) - MantBits
             kept == SubSeq(m, d + 1, Len(m))
             low == sticky \/ \E i \in 1..(d - 1) : m[i] = 1
             up == m[d] = 1 /\ (low \/ kept[1] = 1)
         IN  [m |-> IF up THEN AddBits(kept, <<1>>) ELSE kept, e |-> e + d]

\* float(n) of a small natural n: exact
FloatOfInt(n) == [m |-> NatToBits(n), e |-> 0]

\* x * n, n an int the multiplication converts to a float exactly
FMulInt(x, n) == Round(MulSmall(x.m, n), x.e, FALSE)

\* x / d, d an int the division converts to a float exactly
FDivInt(x, d) ==
    LET res == DivSmall(Zeros(GuardBits) \o x.m, d)
    IN  Round(res.q, x.e - GuardBits, res.r # 0)

\* x + y
FAdd(x, y) ==
    LET e == IF x.e < y.e THEN x.e ELSE y.e
    IN  Round(AddBits(Zeros(x.e - e) \o x.m, Zeros(y.e - e) \o y.m), e, FALSE)

\* x < y
FLess(x, y) ==
    LET e == IF x.e < y.e THEN x.e ELSE y.e
        a == Zeros(x.e - e) \o x.m
        b == Zeros(y.e - e) \o y.m
        n == IF Len(a) > Len(b) THEN Len(a) ELSE Len(b)
        diff == {i \in 1..n : Bit(a, i) # Bit(b, i)}
    IN  diff # {} /\ Bit(a, Max(diff)) < Bit(b, Max(diff))

\* the float a decimal literal num/den denotes: the nearest one
FLit(num, den) == FDivInt(FloatOfInt(num), den)

-----------------------------------------------------------------------------
(* is_dark_theme                                                           *)

HexDigits == "0123456789abcdef"
HexUpper == "0123456789ABCDEF"

HexVal(c) ==
    IF \E v \in 1..16 : CharAt(HexDigits, v) = c
    THEN (CHOOSE v \in 1..16 : CharAt(HexDigits, v) = c) - 1
    ELSE (CHOOSE v \in 1..16 : CharAt(HexUpper, v) = c) - 1

\* Python: s.strip()
Strip(s) ==
    LET keep == {n \in 1..Len(s) : CharAt(s, n) \notin Whitespace}
    IN  IF keep = {} THEN "" ELSE SubSeq(s, Min(keep), Max(keep))

\* Python: int(s, 16) for s of at most two characters, none of them a sign,
\* an underscore or the x of a prefix; -1 stands for ValueError.
PyInt16(s) ==
    LET t == Strip(s)
    IN  IF t = "" \/ \E i \in 1..Len(t) : CharAt(t, i) \notin HexChars THEN -1
        ELSE IF Len(t) = 1 THEN HexVal(t)
        ELSE 16 * HexVal(CharAt(t, 1)) + HexVal(CharAt(t, 2))

\* Python: s[a:b] for 0 <= a <= b
PySlice(s, a, b) ==
    LET hi == IF b < Len(s) THEN b ELSE Len(s)
    IN  IF a >= hi THEN "" ELSE SubSeq(s, a + 1, hi)

\* ''.join([c*2 for c in bg]) for len(bg) == 3
Doubled(bg) ==
    CharAt(bg, 1) \o CharAt(bg, 1) \o CharAt(bg, 2) \o CharAt(bg, 2)
        \o CharAt(bg, 3) \o CharAt(bg, 3)

\* the float literals 0.299, 0.587, 0.114 and 0.5
Lit0299 == FLit(299, 1000)
Lit0587 == FLit(587, 1000)
Lit0114 == FLit(114, 1000)
Lit05 == FLit(5, 10)

\* (0.299 * r + 0.587 * g + 0.114 * b) / 255
luminance(r, g, b) ==
    FDivInt(FAdd(FAdd(FMulInt(Lit0299, r), FMulInt(Lit0587, g)), FMulInt(Lit0114, b)),
            255)

is_dark_theme(colors) ==
    LET bg0 == IF "background" \in DOMAIN colors THEN colors["background"] ELSE "#ffffff"
        bg1 == LStrip(bg0, {"#"})
        bg == IF Len(bg1) = 3 THEN Doubled(bg1) ELSE bg1
        r == PyInt16(PySlice(bg, 0, 2))
        g == PyInt16(PySlice(bg, 2, 4))
        b == PyInt16(PySlice(bg, 4, 6))
    IN  IF r < 0 \/ g < 0 \/ b < 0 THEN TRUE    \* except: return True
        ELSE FLess(luminance(r, g, b), Lit05)

-----------------------------------------------------------------------------
(* select_metal_colors                                                     *)

\* colors.get(k): <<>> is None
Get(colors, k) == IF k \in DOMAIN colors THEN <<colors[k]>> ELSE <<>>

\* colors.get(k, default)
GetDefault(colors, k, default) == IF k \in DOMAIN colors THEN colors[k] ELSE default

\* v or x: None and the empty string are false
Or(v, x) == IF v # <<>> /\ v[1] # "" THEN v[1] ELSE x

type_color(colors, is_dark) ==
    Or(Get(colors, "type"),
       Or(Get(colors, "keyword"), GetDefault(colors, "literal", "#6c71c4")))

\* vector_color with symbol tried before literal
vector_color_SymbolFirst(colors, is_dark) ==
    Or(Get(colors, "number"),
       Or(Get(colors, "symbol"),
          Or(Get(colors, "literal"),
             Or(Get(colors, "type"), IF is_dark THEN "#ae81ff" ELSE "#6c71c4"))))

vector_color(colors, is_dark) ==
    Or(Get(colors, "number"),
       Or(Get(colors, "literal"),
          Or(Get(colors, "symbol"),
             Or(Get(colors, "type"), IF is_dark THEN "#ae81ff" ELSE "#6c71c4"))))

matrix_color(colors, is_dark) ==
    Or(Get(colors, "keyword"),
       Or(Get(colors, "name"),
          Or(Get(colors, "type"), IF is_dark THEN "#f92672" ELSE "#a71d5d")))

texture_color(colors, is_dark) ==
    Or(Get(colors, "attribute"),
       Or(Get(colors, "built_in"),
          Or(Get(colors, "meta"),
             Or(Get(colors, "variable"), IF is_dark THEN "#fd971f" ELSE "#cb4b16"))))

function_color(colors, is_dark) ==
    Or(Get(colors, "function"),
       Or(Get(colors, "string"),
          Or(Get(colors, "built_in"), IF is_dark THEN "#a6e22e" ELSE "#859900")))

select_metal_colors(colors, is_dark) ==
    [type |-> type_color(colors, is_dark),
     vector |-> vector_color(colors, is_dark),
     matrix |-> matrix_color(colors, is_dark),
     texture |-> texture_color(colors, is_dark),
     function |-> function_color(colors, is_dark)]

-----------------------------------------------------------------------------
(* has_metal_classes, generate_metal_css                                   *)

\* has_metal_classes looking for the matrix rule with its brace
has_metal_classes_Matrix(css_content) == Contains(css_content, ".hljs-type-matrix {")

has_metal_classes(css_content) == Contains(css_content, ".hljs-type-vector")

\* generate_metal_css with the function rule before the texture rule
generate_metal_css_Swapped(metal_colors) ==
    ".hljs-type{color:" \o metal_colors.type \o ";font-style:italic}"
    \o ".hljs-type-vector{color:" \o metal_colors.vector \o ";font-weight:700}"
    \o ".hljs-type-matrix{color:" \o metal_colors.matrix \o ";font-weight:700}"
    \o ".hljs-title.function{color:" \o metal_colors.function \o ";font-weight:400}"
    \o ".hljs-type-texture{color:" \o metal_colors.texture \o ";font-weight:700}"

generate_metal_css(metal_colors) ==
    ".hljs-type{color:" \o metal_colors.type \o ";font-style:italic}"
    \o ".hljs-type-vector{color:" \o metal_colors.vector \o ";font-weight:700}"
    \o ".hljs-type-matrix{color:" \o metal_colors.matrix \o ";font-weight:700}"
    \o ".hljs-type-texture{color:" \o metal_colors.texture \o ";font-weight:700}"
    \o ".hljs-title.function{color:" \o metal_colors.function \o ";font-weight:400}"

-----------------------------------------------------------------------------
(* update_css_file: the whole call on a file whose text is content.  The   *)
(* result holds what the call returns (success, message or metal), the     *)
(* text of the file after the call, whether the file was written, the      *)
(* locals colors and is_dark as <<>> or <<value>>, and the functions the   *)
(* call invoked, in order.                                                 *)

Outcome(success, message, metal, text, wrote, colors, dark, calls) ==
    [success |-> success, message |-> message, metal |-> metal, text |-> text,
     wrote |-> wrote, colors |-> colors, is_dark |-> dark, calls |-> calls]

\* update_css_file without the check for the marker
update_css_file_NoCheck(content) ==
    LET colors == extract_colors(content)
    IN  IF DOMAIN colors = {}
        THEN Outcome(FALSE, "Could not extract colors", <<>>, content, FALSE,
                     <<colors>>, <<>>, <<"extract_colors">>)
        ELSE LET is_dark == is_dark_theme(colors)
                 metal_colors == select_metal_colors(colors, is_dark)
                 metal_css == generate_metal_css(metal_colors)
                 stripped == RStrip(content)
                 calls == <<"extract_colors", "is_dark_theme",
                            "select_metal_colors", "generate_metal_css">>
             IN  IF ~EndsWith(stripped, "}")
                 THEN Outcome(FALSE, "CSS doesn't end with closing brace", <<>>,
                              content, FALSE, <<colors>>, <<is_dark>>, calls)
                 ELSE Outcome(TRUE, "", <<metal_colors>>, stripped \o metal_css,
                              TRUE, <<colors>>, <<is_dark>>, calls)

update_css_file(content) ==
    IF has_metal_classes(content)
    THEN Outcome(FALSE, "Already has Metal classes", <<>>, content, FALSE, <<>>, <<>>,
                 <<"has_metal_classes">>)
    ELSE LET colors == extract_colors(content)
         IN  IF DOMAIN colors = {}
             THEN Outcome(FALSE, "Could not extract colors", <<>>, content, FALSE,
                          <<colors>>, <<>>, <<"has_metal_classes", "extract_colors">>)
             ELSE LET is_dark == is_dark_theme(colors)
                      metal_colors == select_metal_colors(colors, is_dark)
                      metal_css == generate_metal_css(metal_colors)
                      stripped == RStrip(content)
                      calls == <<"has_metal_classes", "extract_colors", "is_dark_theme",
                                 "select_metal_colors", "generate_metal_css">>
                  IN  IF ~EndsWith(stripped, "}")
                      THEN Outcome(FALSE, "CSS doesn't end with closing brace", <<>>,
                                   content, FALSE, <<colors>>, <<is_dark>>, calls)
                      ELSE Outcome(TRUE, "", <<metal_colors>>, stripped \o metal_css,
                                   TRUE, <<colors>>, <<is_dark>>, calls)

-----------------------------------------------------------------------------
(* The documents of the model: a document is a sequence of fragments, a    *)
(* fragment a rule (selectors and declarations) or raw text.               *)

Rule(sels, decls) == [sels |-> sels, decls |-> decls, raw |-> ""]
Raw(text) == [sels |-> <<>>, decls |-> <<>>, raw |-> text]

Fragments ==
    << Rule(<<".hljs">>, << <<"background", "#1e1e1e">>, <<"color", "#dcdcdc">> >>),
       Rule(<<".hljs-keyword">>, << <<"color", "#111">> >>),
       Rule(<<".hljs-keyword", ".hljs-name">>, << <<"color", "#222">> >>),
       Rule(<<".hljs-title.function_">>, << <<"color", "#333">> >>),
       Rule(<<".hljs-function .hljs-title">>, << <<"color", "#444">> >>),
       Rule(<<".hljs-number">>, << <<"color", "#a1b2c3">>, <<"background-color", "#555">> >>),
       Rule(<<".hljs">>, << <<"color", "#abcd">>, <<"background", "#fffff">> >>),
       Rule(<<".hljs-string">>, << <<"color", " #12345678">> >>),
       Rule(<<".hljs-keyword">>, << <<"font-weight", "700">> >>),
       Rule(<<".hljs-type">>, << <<"color", "#666">>, <<"color", "#777">> >>),
       Rule(<<".hljs-type-vector">>, << <<"color", "#888">>, <<"font-weight", "700">> >>),
       Raw("\n"),
       Raw("/* end */") >>

RECURSIVE Join(_, _)
Join(strs, sep) ==
    IF strs = <<>> THEN ""
    ELSE IF Len(strs) = 1 THEN strs[1]
    ELSE strs[1] \o sep \o Join(Tail(strs), sep)

FragmentText(f) ==
    IF f.sels = <<>> THEN f.raw
    ELSE Join(f.sels, ",") \o "{"
         \o Join([i \in 1..Len(f.decls) |-> f.decls[i][1] \o ":" \o f.decls[i][2]], ";")
         \o "}"

\* the text of the document made of the fragments with the numbers in doc
DocText(doc) == Join([i \in 1..Len(doc) |-> FragmentText(Fragments[doc[i]])], "")

Docs == UNION {[1..n -> 1..Len(Fragments)] : n \in 0..MaxRules}

\* the files a styles directory of the model holds
ThemeFiles ==
    { DocText(<<1, 2>>),        \* dark theme
      DocText(<<6, 12>>),       \* light theme, newline at the end
      DocText(<<9>>),           \* no colour
      DocText(<<1, 11>>),       \* already has the Metal classes
      DocText(<<8, 13>>) }      \* does not end with a brace

-----------------------------------------------------------------------------
(* main: the loop over the files of the styles directory.  A log entry is  *)
(* one call of update_css_file by main: the run and the file, the text     *)
(* before the call, the outcome, and the counter main added one to.        *)

\* no direct call of a function
Idle == /\ arg = <<>>
        /\ ret = <<>>

InitMain ==
    /\ files \in UNION {[1..n -> ThemeFiles] : n \in 0..NumFiles}
    /\ pc = "idle"
    /\ idx = 0
    /\ updated = 0
    /\ skipped = 0
    /\ errors = 0
    /\ runs = 0
    /\ log = <<>>

\* main up to the loop: sys.exit(1) when there is no CSS file
MainStart ==
    /\ pc \in {"idle", "done"}
    /\ runs < MaxRuns
    /\ runs' = runs + 1
    /\ pc' = IF Len(files) = 0 THEN "exit" ELSE "loop"
    /\ idx' = 0
    /\ updated' = 0
    /\ skipped' = 0
    /\ errors' = 0
    /\ UNCHANGED <<files, log, arg, ret>>

\* Counter with every failure but the missing brace counted as a skip
Counter_ExtractSkipped(res) ==
    IF res.success THEN "updated"
    ELSE IF Contains(res.message, "Already has") \/ Contains(res.message, "Could not")
         THEN "skipped"
    ELSE "errors"

\* the counter main adds one to for a result of update_css_file
Counter(res) ==
    IF res.success THEN "updated"
    ELSE IF Contains(res.message, "Already has") THEN "skipped"
    ELSE "errors"

\* one iteration of the loop of main
MainStep ==
    /\ pc = "loop"
    /\ idx < Len(files)
    /\ LET res == update_css_file(files[idx + 1])
           counter == Counter(res)
       IN  /\ files' = [files EXCEPT ![idx + 1] = res.text]
           /\ log' = Append(log, [run |-> runs, file |-> idx + 1,
                                  before |-> files[idx + 1], res |-> res,
                                  counter |-> counter])
           /\ updated' = IF counter = "updated" THEN updated + 1 ELSE updated
           /\ skipped' = IF counter = "skipped" THEN skipped + 1 ELSE skipped
           /\ errors' = IF counter = "errors" THEN errors + 1 ELSE errors
    /\ idx' = idx + 1
    /\ UNCHANGED <<pc, runs, arg, ret>>

\* the end of the loop: main prints the totals
MainEnd ==
    /\ pc = "loop"
    /\ idx = Len(files)
    /\ pc' = "done"
    /\ UNCHANGED <<files, idx, updated, skipped, errors, runs, log, arg, ret>>

Init == InitMain /\ Idle

Next == MainStart \/ MainStep \/ MainEnd

Spec == Init /\ [][Next]_vars

-----------------------------------------------------------------------------
(* Direct calls of the functions of the script, main not running           *)

MainOff ==
    /\ files = <<>>
    /\ pc = "off"
    /\ idx = 0
    /\ updated = 0
    /\ skipped = 0
    /\ errors = 0
    /\ runs = 0
    /\ log = <<>>

Call(fn, val) ==
    /\ ret = <<>>
    /\ ret' = <<[fn |-> fn, val |-> val]>>
    /\ UNCHANGED <<files, pc, idx, updated, skipped, errors, runs, log, arg>>

Called(fn) == ret # <<>> /\ ret[1].fn = fn

\* extract_colors and update_css_file on every document of the model
InitDoc == MainOff /\ arg \in Docs /\ ret = <<>>

CallExtract == Call("extract_colors", extract_colors(DocText(arg)))

CallUpdate == Call("update_css_file", update_css_file(DocText(arg)))

NextDoc == CallExtract \/ CallUpdate

SpecDoc == InitDoc /\ [][NextDoc]_vars

\* is_dark_theme on palettes with and without a background
ShortDigits == {"0", "4", "7", "8", "c", "f", "F"}
Channels == {"00", "44", "7f", "80", "cc", "ff", "FF"}
BadChars == {"0", "f", "g"}

RECURSIVE Strings(_, _)
Strings(chars, n) ==
    IF n = 0 THEN {""} ELSE {c \o t : c \in chars, t \in Strings(chars, n - 1)}

IsColor(v) ==
    /\ Len(v) \in {4, 7}
    /\ CharAt(v, 1) = "#"
    /\ \A i \in 2..Len(v) : CharAt(v, i) \in HexChars

Backgrounds ==
    {"#" \o a \o b \o c : a \in ShortDigits, b \in ShortDigits, c \in ShortDigits}
    \cup {"#" \o r \o g \o b : r \in Channels, g \in Channels, b \in Channels}
    \cup UNION {{h \o t : h \in {"", "#"}, t \in Strings(BadChars, n)} : n \in 0..MaxBgLen}

TonePalettes ==
    {EmptyDict, "keyword" :> "#000000"}
    \cup {"background" :> bg : bg \in Backgrounds}

InitTone == MainOff /\ arg \in TonePalettes /\ ret = <<>>

CallIsDark == Call("is_dark_theme", is_dark_theme(arg))

NextTone == CallIsDark

SpecTone == InitTone /\ [][NextTone]_vars

\* select_metal_colors on every subset of the category keys and both tones
Keys == {"type", "keyword", "number", "literal", "string", "built_in", "function",
         "attribute", "name", "variable", "symbol", "meta", "base", "background"}

KeyColor ==
    [type |-> "#010101", keyword |-> "#020202", number |-> "#030303",
     literal |-> "#040404", string |-> "#050505", built_in |-> "#060606",
     function |-> "#070707", attribute |-> "#080808", name |-> "#090909",
     variable |-> "#0a0a0a", symbol |-> "#0b0", meta |-> "#0c0",
     base |-> "#0d0", background |-> "#0e0"]

SelectPalettes == {[k \in S |-> KeyColor[k]] : S \in SUBSET Keys}

InitSelect ==
    /\ MainOff
    /\ arg \in [colors : SelectPalettes, is_dark : BOOLEAN]
    /\ ret = <<>>

CallSelect == Call("select_metal_colors", select_metal_colors(arg.colors, arg.is_dark))

NextSelect == CallSelect

SpecSelect == InitSelect /\ [][NextSelect]_vars

-----------------------------------------------------------------------------
(* The fallback chains of the selector as data                             *)

Fields == {"type", "vector", "matrix", "texture", "function"}

Chain ==
    [type |-> <<"type", "keyword", "literal">>,
     vector |-> <<"number", "literal", "symbol", "type">>,
     matrix |-> <<"keyword", "name", "type">>,
     texture |-> <<"attribute", "built_in", "meta", "variable">>,
     function |-> <<"function", "string", "built_in">>]

DarkDefault ==
    [type |-> "#6c71c4", vector |-> "#ae81ff", matrix |-> "#f92672",
     texture |-> "#fd971f", function |-> "#a6e22e"]

LightDefault ==
    [type |-> "#6c71c4", vector |-> "#6c71c4", matrix |-> "#a71d5d",
     texture |-> "#cb4b16", function |-> "#859900"]

ToneDefault(dark) == IF dark THEN DarkDefault ELSE LightDefault

\* the value of the first key of the chain present in P, or the default
FirstPresent(chain, P, default) ==
    LET present == {i \in 1..Len(chain) : chain[i] \in DOMAIN P}
    IN  IF present = {} THEN default ELSE P[chain[Min(present)]]

-----------------------------------------------------------------------------
(* Tone                                                                    *)

\* the three 8-bit channels of a colour '#' + 3 or 6 hex digits
ChannelsOf(v) ==
    IF Len(v) = 4
    THEN [i \in 1..3 |-> 17 * HexVal(CharAt(v, i + 1))]
    ELSE [i \in 1..3 |-> 16 * HexVal(CharAt(v, 2 * i)) + HexVal(CharAt(v, 2 * i + 1))]

\* the tone the luminance formula gives, in exact arithmetic:
\* (0.299 R + 0.587 G + 0.114 B) / 255 < 0.5
ExactDark(v) ==
    LET ch == ChannelsOf(v)
    IN  299 * ch[1] + 587 * ch[2] + 114 * ch[3] < 127500

\* the background of a Palette, white when absent
BackgroundOf(P) == IF "background" \in DOMAIN P THEN P["background"] ELSE "#ffffff"

\* C2: for every Palette whose background is absent or '#' followed by 3 or
\* 6 hex digits, is_dark_theme returns dark exactly when
\* 299 R + 587 G + 114 B < 127500 for the channels R, G, B of the background
\* (3 digits doubled, absent taken as #ffffff).
C2_DarkIffLuminanceBelowHalf ==
    (Called("is_dark_theme") /\ IsColor(BackgroundOf(arg))) =>
        ret[1].val = ExactDark(BackgroundOf(arg))

\* C3: is_dark_theme returns dark for every background that is not '#'
\* followed by exactly 3 or exactly 6 hex digits.
C3_MalformedIsDark ==
    (Called("is_dark_theme") /\ ~IsColor(BackgroundOf(arg))) => ret[1].val = TRUE

-----------------------------------------------------------------------------
(* What a document declares, read off its fragments                        *)

\* the selector shapes extract_colors recognises, in the order it tries them
Shapes ==
    << [name |-> "type", sel |-> ".hljs-type", shape |-> "bare", prop |-> "color"],
       [name |-> "keyword", sel |-> ".hljs-keyword", shape |-> "bare", prop |-> "color"],
       [name |-> "keyword", sel |-> ".hljs-keyword", shape |-> "grouped", prop |-> "color"],
       [name |-> "number", sel |-> ".hljs-number", shape |-> "any", prop |-> "color"],
       [name |-> "literal", sel |-> ".hljs-literal", shape |-> "any", prop |-> "color"],
       [name |-> "string", sel |-> ".hljs-string", shape |-> "any", prop |-> "color"],
       [name |-> "built_in", sel |-> ".hljs-built_in", shape |-> "any", prop |-> "color"],
       [name |-> "function", sel |-> ".hljs-title.function_", shape |-> "any", prop |-> "color"],
       [name |-> "function", sel |-> ".hljs-function .hljs-title", shape |-> "any", prop |-> "color"],
       [name |-> "attribute", sel |-> ".hljs-attribute", shape |-> "any", prop |-> "color"],
       [name |-> "name", sel |-> ".hljs-name", shape |-> "any", prop |-> "color"],
       [name |-> "variable", sel |-> ".hljs-variable", shape |-> "any", prop |-> "color"],
       [name |-> "symbol", sel |-> ".hljs-symbol", shape |-> "any", prop |-> "color"],
       [name |-> "meta", sel |-> ".hljs-meta", shape |-> "any", prop |-> "color"],
       [name |-> "base", sel |-> ".hljs", shape |-> "bare", prop |-> "color"],
       [name |-> "background", sel |-> ".hljs", shape |-> "bare", prop |-> "background"] >>

\* the fragment is a rule whose selector list holds sel in that shape: bare
\* is the selector right before the brace, grouped one followed by a comma
HasShape(f, sh) ==
    LET n == Len(f.sels)
    IN  CASE sh.shape = "bare" -> n > 0 /\ f.sels[n] = sh.sel
          [] sh.shape = "grouped" -> \E i \in 1..(n - 1) : f.sels[i] = sh.sel
          [] OTHER -> \E i \in 1..n : f.sels[i] = sh.sel

\* the colour a declared value starts with: '#' and its first 3 to 6 hex
\* digits, after leading whitespace; "" when the value starts with none
ColorOf(value) ==
    LET v == LStrip(value, Whitespace)
        digits == {n \in 0..6 : /\ n + 1 <= Len(v)
                                /\ \A i \in 2..(n + 1) : CharAt(v, i) \in HexChars}
    IN  IF v # "" /\ CharAt(v, 1) = "#" /\ Max(digits) >= 3
        THEN SubSeq(v, 1, Max(digits) + 1)
        ELSE ""

\* the declarations of the rule that give a colour through a property
\* whose name ends with prop ('color' also ends 'background-color')
ColorDecls(f, prop) ==
    {i \in 1..Len(f.decls) : EndsWith(f.decls[i][1], prop) /\ ColorOf(f.decls[i][2]) # ""}

Offers(f, sh) == HasShape(f, sh) /\ ColorDecls(f, sh.prop) # {}

\* the positions in the document of the fragments that offer shape k
Offering(doc, k) == {i \in 1..Len(doc) : Offers(Fragments[doc[i]], Shapes[k])}

ShapesOf(c) == {k \in 1..Len(Shapes) : Shapes[k].name = c}

\* the shape extract_colors takes the category from: the first of its
\* shapes, in the order of the table, that some rule of the document offers
ShapeUsed(doc, c) == Min({k \in ShapesOf(c) : Offering(doc, k) # {}})

Found(doc, c) == \E k \in ShapesOf(c) : Offering(doc, k) # {}

\* the colours the fragment at position i declares for the property
Declared(doc, i, prop) ==
    LET f == Fragments[doc[i]]
    IN  {ColorOf(f.decls[j][2]) : j \in ColorDecls(f, prop)}

\* the first colour the fragment at position i declares for the property
FirstDeclared(doc, i, prop) ==
    LET f == Fragments[doc[i]]
    IN  ColorOf(f.decls[Min(ColorDecls(f, prop))][2])

\* C5 (as claimed): the value stored for a category is the first colour the
\* matched rule declares through a 'color:' declaration ('background:' for
\* the background), also when the rule declares several.
C5_FirstDeclaredColor ==
    Called("extract_colors") =>
        \A c \in DOMAIN ret[1].val :
            LET k == ShapeUsed(arg, c)
            IN  ret[1].val[c] = FirstDeclared(arg, Min(Offering(arg, k)), Shapes[k].prop)

\* C6 (as claimed): the value of a category comes from the first rule in
\* document order that offers any recognised shape of the category, also
\* when that rule is grouped and a later one bare.
C6_FirstInDocumentOrder ==
    Called("extract_colors") =>
        \A c \in DOMAIN ret[1].val :
            LET first == Min(UNION {Offering(arg, k) : k \in ShapesOf(c)})
            IN  \E k \in ShapesOf(c) : ret[1].val[c] \in Declared(arg, first, Shapes[k].prop)

\* C6 (amended): a category is in the Palette exactly when some rule of the
\* document offers one of its shapes, and its one value comes from the
\* first rule in document order that offers the first such shape in the
\* order extract_colors tries them (bare before grouped for keyword,
\* .hljs-title.function_ before .hljs-function .hljs-title for function).
C6_FirstShapeThenDocumentOrder ==
    Called("extract_colors") =>
        /\ \A c \in Keys : c \in DOMAIN ret[1].val <=> Found(arg, c)
        /\ \A c \in DOMAIN ret[1].val :
               LET k == ShapeUsed(arg, c)
               IN  ret[1].val[c] \in Declared(arg, Min(Offering(arg, k)), Shapes[k].prop)

\* a grouped keyword rule followed by a bare one: the bare one gives the value
C6_Witness ==
    /\ Called("extract_colors")
    /\ Len(arg) >= 2
    /\ arg[1] = 3
    /\ arg[2] = 2
    /\ ret[1].val["keyword"] = "#111"

\* C7: every value of the Palette is '#' followed by exactly 3 or exactly 6
\* hex digits, and is a colour value as the document writes it, never a
\* cut one.
C7_ValuesAreColors ==
    Called("extract_colors") =>
        \A c \in DOMAIN ret[1].val :
            /\ IsColor(ret[1].val[c])
            /\ \E i \in 1..Len(arg) :
                   \E j \in 1..Len(Fragments[arg[i]].decls) :
                       LStrip(Fragments[arg[i]].decls[j][2], Whitespace) = ret[1].val[c]

-----------------------------------------------------------------------------
(* update_css_file on one document                                         *)

Marker == ".hljs-type-vector"

\* the places of the text where the marker selector stands
MarkerAt(text) == {i \in 1..Len(text) : StartsAt(text, i, Marker)}

\* the document is made of a fragment that holds the marker selector
HasMarkerRule(doc) == \E i \in 1..Len(doc) : Marker \in {s : s \in Range(Fragments[doc[i]].sels)}

\* C4: on every document on which update_css_file succeeds,
\* has_metal_classes of the text written back is true; and for every text
\* (the documents of the model and the texts written back)
\* has_metal_classes is true exactly when '.hljs-type-vector' occurs in it.
C4_RoundTripAndMarker ==
    Called("update_css_file") =>
        LET res == ret[1].val
        IN  /\ res.success => has_metal_classes(res.text)
            /\ has_metal_classes(res.text) <=> MarkerAt(res.text) # {}
            /\ has_metal_classes(DocText(arg)) <=> HasMarkerRule(arg)

\* a successful update of a document without the marker
C4_Witness ==
    /\ Called("update_css_file")
    /\ ret[1].val.success
    /\ ~HasMarkerRule(arg)
    /\ Cardinality(MarkerAt(ret[1].val.text)) = 1

\* the text without its trailing whitespace: the prefix that ends with a
\* character that is no whitespace and is followed by whitespace only
Trimmed(text) ==
    LET cuts == {n \in 0..Len(text) :
                    /\ n > 0 => CharAt(text, n) \notin Whitespace
                    /\ \A i \in (n + 1)..Len(text) : CharAt(text, i) \in Whitespace}
    IN  SubSeq(text, 1, CHOOSE n \in cuts : TRUE)

\* the five rules in their order, for some five colours
IsBlock(text, m) ==
    text = ".hljs-type{color:" \o m.type \o ";font-style:italic}"
           \o ".hljs-type-vector{color:" \o m.vector \o ";font-weight:700}"
           \o ".hljs-type-matrix{color:" \o m.matrix \o ";font-weight:700}"
           \o ".hljs-type-texture{color:" \o m.texture \o ";font-weight:700}"
           \o ".hljs-title.function{color:" \o m.function \o ";font-weight:400}"

\* the rules of the document that offer some category a colour
HasPalette(doc) == \E c \in Keys : Found(doc, c)

\* C10: update_css_file only appends.  It succeeds exactly on a document
\* without the marker, with a non-empty Palette, whose trimmed text ends
\* with '}'; then the text written is the trimmed original followed by
\* exactly the five rules .hljs-type, .hljs-type-vector, .hljs-type-matrix,
\* .hljs-type-texture, .hljs-title.function in this order.  On each of the
\* three other outcomes the file is not written and its text is unchanged.
C10_OnlyAppends ==
    Called("update_css_file") =>
        LET res == ret[1].val
            text == DocText(arg)
            body == Trimmed(text)
        IN  /\ res.success <=>
                   (~HasMarkerRule(arg) /\ HasPalette(arg) /\ EndsWith(body, "}"))
            /\ res.success =>
                   /\ res.wrote
                   /\ SubSeq(res.text, 1, Len(body)) = body
                   /\ IsBlock(SubSeq(res.text, Len(body) + 1, Len(res.text)), res.metal[1])
            /\ ~res.success =>
                   /\ ~res.wrote
                   /\ res.text = text
                   /\ res.message =
                          IF HasMarkerRule(arg) THEN "Already has Metal classes"
                          ELSE IF ~HasPalette(arg) THEN "Could not extract colors"
                          ELSE "CSS doesn't end with closing brace"

\* a successful update of a document that ends with a newline
C10_Witness ==
    /\ Called("update_css_file")
    /\ ret[1].val.success
    /\ Len(arg) >= 2
    /\ arg[Len(arg)] = 12
    /\ Len(ret[1].val.text) > Len(DocText(arg))

-----------------------------------------------------------------------------
(* Runs of main                                                            *)

\* the calls of update_css_file of the current run
ThisRun == {j \in 1..Len(log) : log[j].run = runs}

\* the calls whose extraction gave no category
EmptyPalette(j) == log[j].res.colors # <<>> /\ DOMAIN log[j].res.colors[1] = {}

Counted(kind) == Cardinality({j \in ThisRun : log[j].counter = kind})

\* C8 (as claimed): a document whose extraction yields no category is
\* counted as skipped, not as an error.
C8_EmptyPaletteSkipped ==
    /\ \A j \in 1..Len(log) : EmptyPalette(j) => log[j].counter = "skipped"
    /\ pc = "done" =>
           skipped = Cardinality({j \in ThisRun :
                                     EmptyPalette(j) \/ log[j].counter = "skipped"})

\* C8 (amended): a document whose extraction yields no category is counted
\* in the error total, not in the skipped total; the run does not stop:
\* every document of the list is processed once, in order, and at the end
\* updated + skipped + errors is the number of documents.
C8_EmptyPaletteIsError ==
    /\ \A j \in 1..Len(log) : EmptyPalette(j) => log[j].counter = "errors"
    /\ pc \in {"loop", "done"} =>
           /\ {log[j].file : j \in ThisRun} = 1..idx
           /\ Cardinality(ThisRun) = idx
           /\ updated = Counted("updated")
           /\ skipped = Counted("skipped")
           /\ errors = Counted("errors")
    /\ pc = "done" =>
           /\ idx = Len(files)
           /\ updated + skipped + errors = Len(files)

\* a finished run in which a document without colours came before one that
\* was updated
C8_Witness ==
    /\ pc = "done"
    /\ \E j \in ThisRun : \E k \in ThisRun :
           /\ j < k
           /\ EmptyPalette(j)
           /\ log[k].res.success
    /\ errors = 1
    /\ updated = 1

\* C9: in consecutive runs over the same documents, every call checks the
\* marker first and extracts after it; no document holds the marker rule
\* more than once; and once a call has succeeded on a document, every
\* later call on it returns 'Already has Metal classes' without calling
\* extract_colors or select_metal_colors and leaves the text as the
\* successful call wrote it.
C9_UpdateOnce ==
    /\ \A j \in 1..Len(log) :
           /\ log[j].res.calls[1] = "has_metal_classes"
           /\ \A n \in 1..Len(log[j].res.calls) :
                  log[j].res.calls[n] = "extract_colors" => n = 2
    /\ \A i \in 1..Len(files) : Cardinality(MarkerAt(files[i])) <= 1
    /\ \A j \in 1..Len(log) :
           log[j].res.success =>
               /\ files[log[j].file] = log[j].res.text
               /\ \A k \in (j + 1)..Len(log) :
                      log[k].file = log[j].file =>
                          /\ log[k].res.message = "Already has Metal classes"
                          /\ log[k].res.calls = <<"has_metal_classes">>
                          /\ ~log[k].res.wrote
                          /\ log[k].res.text = log[j].res.text

\* a document updated in one run and skipped in the next
C9_Witness ==
    \E j \in 1..Len(log) : \E k \in 1..Len(log) :
        /\ log[j].run < log[k].run
        /\ log[j].file = log[k].file
        /\ log[j].res.success
        /\ log[k].counter = "skipped"
        /\ files[log[k].file] = log[j].res.text

====
